---- MODULE Spec2Model ----
(***************************************************************************)
(* Model of app.py: a Streamlit vehicle-expense tracker that keeps fuel    *)
(* ("Consumo") and maintenance ("Manutencao") rows in two worksheets of a  *)
(* Google Sheets document.  DataManager reads and rewrites whole sheets;   *)
(* the three UI classes validate form input, append rows and render       *)
(* reports.                                                                *)
(*                                                                         *)
(* Abstractions: floats are exact integers or fractions (num/den); dates   *)
(* are small integers ordered as dates are; a pandas DataFrame is a record *)
(* [cols, rows] where cols says whether the frame has any columns          *)
(* (pd.DataFrame() has none) and rows is the sequence of its rows.         *)
(* conn.read / conn.update belong to streamlit_gsheets: a read either      *)
(* raises or returns the sheet (or the copy cached for ttl seconds), an    *)
(* update either raises and leaves the sheet alone or replaces the sheet.  *)
(***************************************************************************)
EXTENDS Integers, Sequences, FiniteSets, TLC

\* ------------------------------------------------------------------ bounds
\* Rows a worksheet may hold in the submission flows.
MaxRows == 2
\* Rows of a worksheet whose report is computed (SpecConsumo, SpecManutencao).
MaxRegistros == 3

\* ----------------------------------------------------------------- domains
Worksheets == {"Consumo", "Manutencao"}
Veiculos == {"Carro", "Moto"}
\* number_input has min_value=0.0: the forms deliver 0 or a positive number.
FormNumeros == {0, 1}
FormDescricoes == {"", "oleo"}
FormDatas == {1}
\* Values of the rows whose report is computed.
Datas == {1, 2}
Quilometragens == {1000, 1400}
LitrosVals == {10, 30}
PrecoVals == {5}
ValorVals == {30, 50, 100}

\* -------------------------------------------------------------- DataFrames
\* pd.DataFrame(): no columns, no rows.
EmptyDataFrame == [cols |-> FALSE, rows |-> <<>>]

\* DataFrame.empty
IsEmpty(df) == df.rows = <<>> \/ ~df.cols

\* pd.DataFrame([data])
FrameOf(data) == [cols |-> TRUE, rows |-> <<data>>]

\* pd.concat([a, b], ignore_index=True)
Concat(a, b) == [cols |-> a.cols \/ b.cols, rows |-> a.rows \o b.rows]

\* Lexicographic order of the vehicle names ("Carro" < "Moto").
VeiculoOrd(v) == IF v = "Carro" THEN 0 ELSE 1

\* Order of sort_values(['Veiculo', 'Data']).
RowLess(a, b) ==
    \/ VeiculoOrd(a.Veiculo) < VeiculoOrd(b.Veiculo)
    \/ a.Veiculo = b.Veiculo /\ a.Data < b.Data

\* df.sort_values(['Veiculo', 'Data']): a stable sort, so rows with equal
\* keys keep their order.  Rank(i) is the place of row i in the result.
sort_values(rows) ==
    LET n == Len(rows)
        Rank(i) ==
            1 + Cardinality({j \in 1..n :
                    \/ RowLess(rows[j], rows[i])
                    \/ ~RowLess(rows[i], rows[j]) /\ j < i})
    IN [p \in 1..n |-> rows[CHOOSE i \in 1..n : Rank(i) = p]]

\* Series.unique(): the values in order of first appearance.
unique(vals) ==
    LET firsts == {i \in 1..Len(vals) : \A j \in 1..(i - 1) : vals[j] # vals[i]}
    IN [p \in 1..Cardinality(firsts) |->
            vals[CHOOSE i \in firsts : Cardinality({j \in firsts : j < i}) = p - 1]]

VeiculoCol(rows) == [i \in 1..Len(rows) |-> rows[i].Veiculo]

\* df[df['Veiculo'] == veiculo]
RowsOf(rows, veiculo) == SelectSeq(rows, LAMBDA r : r.Veiculo = veiculo)

\* A float that may be NaN or infinite: kind is "num", "nan" or "inf";
\* a "num" is num/den with den > 0, an "inf" has its sign in num.
NaN == [kind |-> "nan", num |-> 0, den |-> 1]
Inf(sign) == [kind |-> "inf", num |-> sign, den |-> 1]
Num(n) == [kind |-> "num", num |-> n, den |-> 1]

\* Series.diff() at position i: NaN for the first row.
Diff(rows, i) ==
    IF i = 1 THEN NaN ELSE Num(rows[i].Quilometragem - rows[i - 1].Quilometragem)

\* Float division km_diff / Litros as pandas does it: NaN propagates, 0/0 is
\* NaN, x/0 is infinite.
Divide(kmDiff, litros) ==
    IF kmDiff.kind = "nan" THEN NaN
    ELSE IF litros = 0
         THEN (IF kmDiff.num = 0 THEN NaN ELSE Inf(IF kmDiff.num > 0 THEN 1 ELSE -1))
    ELSE IF litros > 0 THEN [kind |-> "num", num |-> kmDiff.num, den |-> litros]
    ELSE [kind |-> "num", num |-> -kmDiff.num, den |-> -litros]

\* One vehicle's frame with the two derived columns (lines 161-163).
WithConsumo(rowsV) ==
    [i \in 1..Len(rowsV) |->
        [Data |-> rowsV[i].Data, Veiculo |-> rowsV[i].Veiculo,
         Quilometragem |-> rowsV[i].Quilometragem, Litros |-> rowsV[i].Litros,
         Preco_L |-> rowsV[i].Preco_L, Valor_Total |-> rowsV[i].Valor_Total,
         km_diff |-> Diff(rowsV, i),
         consumo_km_l |-> Divide(Diff(rowsV, i), rowsV[i].Litros)]]

\* dropna(subset=['consumo_km_l'])
dropna(rowsV) == SelectSeq(rowsV, LAMBDA r : r.consumo_km_l.kind # "nan")

RECURSIVE ConcatAll(_)
ConcatAll(frames) ==
    IF frames = <<>> THEN <<>> ELSE Head(frames) \o ConcatAll(Tail(frames))

ProcessarVeiculoNoDrop(sorted, veiculo) == WithConsumo(RowsOf(sorted, veiculo))

\* Lines 161-164: one vehicle's rows, derived columns added, NaN rows dropped.
ProcessarVeiculo(sorted, veiculo) == dropna(WithConsumo(RowsOf(sorted, veiculo)))

\* ReportsUI._processar_dados_consumo.  A frame without columns has no
\* 'Veiculo' column to sort by: sort_values raises KeyError (err).
_processar_dados_consumo(df) ==
    IF ~df.cols THEN [err |-> TRUE, df |-> EmptyDataFrame]
    ELSE LET sorted == sort_values(df.rows)
             veiculos == unique(VeiculoCol(sorted))
             resultado == [k \in 1..Len(veiculos) |-> ProcessarVeiculo(sorted, veiculos[k])]
         IN [err |-> FALSE,
             df |-> IF resultado = <<>> THEN EmptyDataFrame
                    ELSE [cols |-> TRUE, rows |-> ConcatAll(resultado)]]

\* ------------------------------------------------------- report statistics
\* Series.sum() of the 'Valor Total' column.
RECURSIVE SumValorTotal(_)
SumValorTotal(rows) ==
    IF rows = <<>> THEN 0 ELSE Head(rows).Valor_Total + SumValorTotal(Tail(rows))

\* Series.sum() of the km_diff column (NaN is skipped).
RECURSIVE SumKmDiff(_)
SumKmDiff(rows) ==
    IF rows = <<>> THEN 0
    ELSE (IF Head(rows).km_diff.kind = "num" THEN Head(rows).km_diff.num ELSE 0)
         + SumKmDiff(Tail(rows))

\* Series.sum() of the 'Valor' column.
RECURSIVE SumValor(_)
SumValor(rows) ==
    IF rows = <<>> THEN 0 ELSE Head(rows).Valor + SumValor(Tail(rows))

\* Float addition on the model's floats; an infinity keeps its sign in num.
AddFloat(a, b) ==
    IF a.kind = "nan" \/ b.kind = "nan" THEN NaN
    ELSE IF a.kind = "inf" /\ b.kind = "inf" THEN (IF a.num = b.num THEN a ELSE NaN)
    ELSE IF a.kind = "inf" THEN a
    ELSE IF b.kind = "inf" THEN b
    ELSE [kind |-> "num", num |-> a.num * b.den + b.num * a.den, den |-> a.den * b.den]

RECURSIVE SumConsumo(_)
SumConsumo(rows) ==
    IF rows = <<>> THEN Num(0)
    ELSE AddFloat(Head(rows).consumo_km_l, SumConsumo(Tail(rows)))

\* Series.mean() of consumo_km_l: NaN for no rows.
MeanConsumo(rows) ==
    IF rows = <<>> THEN NaN
    ELSE LET s == SumConsumo(rows)
         IN IF s.kind = "num" THEN [s EXCEPT !.den = s.den * Len(rows)] ELSE s

NoGeral == [feito |-> FALSE, custo_total |-> 0, km_total |-> 0]
NoFuelStats == [feito |-> FALSE, por_veiculo |-> <<>>, geral |-> NoGeral]

\* The three metrics of one vehicle (lines 171-181).
VeiculoMetrics(rows, veiculo) ==
    LET df_veiculo == RowsOf(rows, veiculo)
    IN [veiculo |-> veiculo,
        custo_veiculo |-> SumValorTotal(df_veiculo),
        km_veiculo |-> SumKmDiff(df_veiculo),
        consumo_medio |-> MeanConsumo(df_veiculo)]

\* ReportsUI._render_fuel_statistics.  df['Veiculo'] on a frame without
\* columns raises KeyError (err).
_render_fuel_statistics(df) ==
    IF ~df.cols THEN [err |-> TRUE, stats |-> NoFuelStats]
    ELSE LET veiculos == unique(VeiculoCol(df.rows))
         IN [err |-> FALSE,
             stats |->
                [feito |-> TRUE,
                 por_veiculo |->
                    [k \in 1..Len(veiculos) |-> VeiculoMetrics(df.rows, veiculos[k])],
                 geral |->
                    IF ~IsEmpty(df)
                    THEN [feito |-> TRUE,
                          custo_total |-> SumValorTotal(df.rows),
                          km_total |-> SumKmDiff(df.rows)]
                    ELSE NoGeral]]

\* ReportsUI._render_fuel_charts: the number of charts drawn.  The first
\* chart sorts and plots df_original by its columns (KeyError without them).
_render_fuel_charts(df_original, df_processado) ==
    IF ~df_original.cols THEN [err |-> TRUE, charts |-> 0]
    ELSE [err |-> FALSE, charts |-> IF ~IsEmpty(df_processado) THEN 2 ELSE 1]

NoMaintStats == [feito |-> FALSE, gastos_por_veiculo |-> <<>>, gasto_total |-> 0]

\* The keys of df.groupby('Veiculo'): the vehicles present, sorted.
GroupKeys(rows) ==
    LET present == {rows[i].Veiculo : i \in 1..Len(rows)}
    IN (IF "Carro" \in present THEN <<"Carro">> ELSE <<>>)
       \o (IF "Moto" \in present THEN <<"Moto">> ELSE <<>>)

GroupSumAll(rows, veiculo) == SumValor(rows)

\* One group's sum of 'Valor'.
GroupSum(rows, veiculo) == SumValor(RowsOf(rows, veiculo))

\* ReportsUI._render_maintenance_statistics.
_render_maintenance_statistics(df) ==
    IF ~df.cols THEN [err |-> TRUE, stats |-> NoMaintStats]
    ELSE LET keys == GroupKeys(df.rows)
         IN [err |-> FALSE,
             stats |->
                [feito |-> TRUE,
                 gastos_por_veiculo |->
                    [k \in 1..Len(keys) |->
                        [veiculo |-> keys[k], valor |-> GroupSum(df.rows, keys[k])]],
                 gasto_total |-> SumValor(df.rows)]]

\* What one run of ReportsUI.render shows.  erro: an exception left render.
NoRelatorio ==
    [erro |-> FALSE, lidos |-> <<>>, lidos_manut |-> <<>>, processados |-> <<>>,
     consumo |-> NoFuelStats, charts |-> 0, manutencao |-> NoMaintStats]

\* The fuel half of render (lines 147-150).
RenderFuel(dados_consumo) ==
    LET base == [NoRelatorio EXCEPT !.lidos = dados_consumo.rows]
        p == _processar_dados_consumo(dados_consumo)
        s == _render_fuel_statistics(p.df)
        c == _render_fuel_charts(dados_consumo, p.df)
    IN IF p.err THEN [base EXCEPT !.erro = TRUE]
       ELSE IF s.err THEN [base EXCEPT !.erro = TRUE, !.processados = p.df.rows]
       ELSE IF c.err
            THEN [base EXCEPT !.erro = TRUE, !.processados = p.df.rows, !.consumo = s.stats]
       ELSE [base EXCEPT !.processados = p.df.rows, !.consumo = s.stats,
                         !.charts = c.charts]

\* The guard of line 147.
FuelGuardAlways(dados_consumo) == TRUE
FuelGuard(dados_consumo) == ~IsEmpty(dados_consumo)

\* The guard of line 152.
MaintGuard(dados_manutencao) == ~IsEmpty(dados_manutencao)

\* ReportsUI.render, given the two frames read_data returned.
render(dados_consumo, dados_manutencao) ==
    LET f0 == IF FuelGuard(dados_consumo) THEN RenderFuel(dados_consumo)
              ELSE [NoRelatorio EXCEPT !.lidos = dados_consumo.rows]
        f == [f0 EXCEPT !.lidos_manut = dados_manutencao.rows]
        m == _render_maintenance_statistics(dados_manutencao)
    IN IF f.erro \/ ~MaintGuard(dados_manutencao) THEN f
       ELSE IF m.err THEN [f EXCEPT !.erro = TRUE]
       ELSE [f EXCEPT !.manutencao = m.stats]

\* ------------------------------------------------------------ DataManager
\* The rows conn.read(worksheet, ttl=5) holds cached, if any.
NoCache == [valid |-> FALSE, rows |-> <<>>]

\* The frame read from a sheet; hdr: an empty sheet still has its header row.
SheetFrame(sheet, hdr) == [cols |-> sheet # <<>> \/ hdr, rows |-> sheet]

\* self.conn.read(worksheet=worksheet, ttl=5): within ttl the cached result
\* is returned; otherwise the sheet is fetched, which may raise (~env.readOk).
conn_read(sheet, cached, env) ==
    IF cached.valid
    THEN [raised |-> FALSE, df |-> SheetFrame(cached.rows, env.hdr), cached |-> cached]
    ELSE IF env.readOk
         THEN [raised |-> FALSE, df |-> SheetFrame(sheet, env.hdr),
               cached |-> [valid |-> TRUE, rows |-> sheet]]
    ELSE [raised |-> TRUE, df |-> EmptyDataFrame, cached |-> cached]

\* DataManager.read_data: an exception becomes st.error and an empty frame.
\* The 'Data' column is turned into dates (line 26); dates are the model's
\* integers throughout, nothing in the model depends on their text form.
read_data(sheet, cached, env) ==
    LET r == conn_read(sheet, cached, env)
    IN IF r.raised THEN [df |-> EmptyDataFrame, erro |-> TRUE, cached |-> r.cached]
       ELSE [df |-> r.df, erro |-> FALSE, cached |-> r.cached]

\* self.conn.update(worksheet=worksheet, data=df_updated): replaces the whole
\* sheet by the frame's rows, or raises (~env.writeOk) and leaves it.
conn_update(sheet, df_updated, env) ==
    IF env.writeOk THEN [raised |-> FALSE, sheet |-> df_updated.rows]
    ELSE [raised |-> TRUE, sheet |-> sheet]

add_data_writeRetry(sheet, df_existing, data, env) ==
    [ok |-> TRUE, sheet |-> Concat(df_existing, FrameOf(data)).rows,
     updates |-> IF env.writeOk THEN 1 ELSE 2, erro |-> ~env.writeOk]

add_data_writeAppend(sheet, df_existing, data, env) ==
    [ok |-> env.writeOk, sheet |-> IF env.writeOk THEN Append(sheet, data) ELSE sheet,
     updates |-> 1, erro |-> ~env.writeOk]

\* Lines 35-41 of add_data: everything after the read.
add_data_write(sheet, df_existing, data, env) ==
    LET df_updated == Concat(df_existing, FrameOf(data))
        u == conn_update(sheet, df_updated, env)
    IN [ok |-> ~u.raised, sheet |-> u.sheet, updates |-> 1, erro |-> u.raised]

\* DataManager.add_data.
add_data(sheet, cached, data, env) ==
    LET rd == read_data(sheet, cached, env)
        w == add_data_write(sheet, rd.df, data, env)
    IN [ok |-> w.ok, sheet |-> w.sheet, cached |-> rd.cached, updates |-> w.updates,
        readErro |-> rd.erro, writeErro |-> w.erro]

\* ---------------------------------------------------------------- handlers
\* What a submission handler did.
Rejected(sheet, cached) ==
    [warning |-> TRUE, addCalls |-> 0, updates |-> 0, ok |-> FALSE, success |-> FALSE,
     rerun |-> FALSE, readErro |-> FALSE, writeErro |-> FALSE, registro |-> <<>>,
     sheet |-> sheet, cached |-> cached]

Submitted(a, novo_registro) ==
    [warning |-> FALSE, addCalls |-> 1, updates |-> a.updates, ok |-> a.ok,
     success |-> a.ok, rerun |-> a.ok, readErro |-> a.readErro,
     writeErro |-> a.writeErro, registro |-> <<novo_registro>>,
     sheet |-> a.sheet, cached |-> a.cached]

\* novo_registro of lines 71-78.
FuelRegistro(veiculo, data, km, litros, preco, valor_total) ==
    [Data |-> data, Veiculo |-> veiculo, Quilometragem |-> km, Litros |-> litros,
     Preco_L |-> preco, Valor_Total |-> valor_total]

FuelInvalidNoLitros(km, litros, preco) == km <= 0 \/ preco <= 0

\* The validation of line 67.
FuelInvalid(km, litros, preco) == km <= 0 \/ litros <= 0 \/ preco <= 0

\* FuelConsumptionUI._handle_fuel_submission.
_handle_fuel_submission(sheet, cached, veiculo, data, km, litros, preco, valor_total, env) ==
    IF FuelInvalid(km, litros, preco) THEN Rejected(sheet, cached)
    ELSE LET novo_registro == FuelRegistro(veiculo, data, km, litros, preco, valor_total)
         IN Submitted(add_data(sheet, cached, novo_registro, env), novo_registro)

\* novo_registro of lines 116-121.
MaintRegistro(veiculo, descricao, valor, data) ==
    [Data |-> data, Veiculo |-> veiculo, Descricao |-> descricao, Valor |-> valor]

MaintInvalidBoth(descricao, valor) == descricao = "" /\ valor <= 0

\* The validation of line 112.
MaintInvalid(descricao, valor) == descricao = "" \/ valor <= 0

\* MaintenanceUI._handle_maintenance_submission.
_handle_maintenance_submission(sheet, cached, veiculo, descricao, valor, data, env) ==
    IF MaintInvalid(descricao, valor) THEN Rejected(sheet, cached)
    ELSE LET novo_registro == MaintRegistro(veiculo, descricao, valor, data)
         IN Submitted(add_data(sheet, cached, novo_registro, env), novo_registro)

\* ------------------------------------------------------------------- state
Sessions == {1, 2}

VARIABLES
    store,      \* worksheet -> the rows of the sheet
    cache,      \* worksheet -> what conn.read holds cached for ttl seconds
    submitted,  \* worksheet -> the records add_data returned True for
    last,       \* the latest UI operation: its input and what it did
    sess        \* session -> its position inside add_data (SpecRace)

vars == <<store, cache, submitted, last, sess>>

\* What the spreadsheet service does to a handler's read and write.
\* Choices that cannot change an outcome are not enumerated: a cached result
\* needs no fetch, a header row shows only on a fetched or cached empty sheet.
SubmitEnvs(cached) ==
    {env \in [readOk : BOOLEAN, hdr : {FALSE}, writeOk : BOOLEAN] :
        cached.valid => env.readOk}
ReadEnvs(sheet, cached) ==
    {env \in [readOk : BOOLEAN, hdr : BOOLEAN, writeOk : {TRUE}] :
        /\ cached.valid => env.readOk
        /\ env.hdr => env.readOk /\ (IF cached.valid THEN cached.rows ELSE sheet) = <<>>}

NoEntrada ==
    [veiculo |-> "Carro", data |-> 0, km |-> 0, litros |-> 0, preco |-> 0,
     descricao |-> "", valor |-> 0]

FuelInputs ==
    {[NoEntrada EXCEPT !.veiculo = v, !.data = d, !.km = k, !.litros = l, !.preco = p] :
        v \in Veiculos, d \in FormDatas, k \in FormNumeros, l \in FormNumeros,
        p \in FormNumeros}

MaintInputs ==
    {[NoEntrada EXCEPT !.veiculo = v, !.data = d, !.descricao = t, !.valor = c] :
        v \in Veiculos, d \in FormDatas, t \in FormDescricoes, c \in FormNumeros}

NoSession == [pc |-> "idle", ws |-> "Consumo", df_existing |-> EmptyDataFrame,
              data |-> <<>>, ret |-> FALSE, overlap |-> FALSE, stale |-> FALSE]

EmptyStore == [w \in Worksheets |-> <<>>]

NoLast ==
    [op |-> "none", ws |-> "Consumo", entrada |-> NoEntrada, antes |-> EmptyStore,
     h |-> Rejected(<<>>, NoCache), leituras |-> <<>>, relatorio |-> NoRelatorio]

Init ==
    /\ store = EmptyStore
    /\ cache = [w \in Worksheets |-> NoCache]
    /\ submitted = EmptyStore
    /\ last = NoLast
    /\ sess = [s \in Sessions |-> NoSession]

\* A handler that never called add_data did not consult the service: its
\* choices are not enumerated.
Consulted(h, env) == h.addCalls = 0 => env.readOk /\ env.writeOk

\* The bookkeeping common to both submissions.
Record(op, ws, e, h) ==
    /\ store' = [store EXCEPT ![ws] = h.sheet]
    /\ cache' = [cache EXCEPT ![ws] = h.cached]
    /\ submitted' = IF h.ok THEN [submitted EXCEPT ![ws] = @ \o h.registro]
                    ELSE submitted
    /\ last' = [NoLast EXCEPT !.op = op, !.ws = ws, !.entrada = e, !.antes = store,
                              !.h = [h EXCEPT !.sheet = <<>>, !.cached = NoCache]]
    /\ UNCHANGED sess

\* The "Registrar Abastecimento" button (lines 58-62).
FuelSubmit ==
    /\ Len(submitted["Consumo"]) < MaxRows
    /\ \E e \in FuelInputs, env \in SubmitEnvs(cache["Consumo"]) :
          LET h == _handle_fuel_submission(store["Consumo"], cache["Consumo"],
                                                e.veiculo, e.data, e.km, e.litros,
                                                e.preco, e.litros * e.preco, env)
          IN /\ Consulted(h, env)
             /\ Record("fuel", "Consumo", e, h)

\* The "Registrar Manutencao" button (lines 106-107).
MaintSubmit ==
    /\ Len(submitted["Manutencao"]) < MaxRows
    /\ \E e \in MaintInputs, env \in SubmitEnvs(cache["Manutencao"]) :
          LET h == _handle_maintenance_submission(store["Manutencao"],
                                                       cache["Manutencao"], e.veiculo,
                                                       e.descricao, e.valor, e.data, env)
          IN /\ Consulted(h, env)
             /\ Record("maint", "Manutencao", e, h)

\* _display_fuel_records / _display_maintenance_records: one read_data, then
\* the table is drawn when the frame is not empty.
DisplayRecords ==
    \E ws \in Worksheets :
      \E env \in ReadEnvs(store[ws], cache[ws]) :
        /\ cache' = [cache EXCEPT ![ws] = read_data(store[ws], cache[ws], env).cached]
        /\ UNCHANGED <<store, submitted, last, sess>>

\* ReportsUI.render with its two reads (lines 142-154).
ReportWith(envC, envM) ==
    LET rc == read_data(store["Consumo"], cache["Consumo"], envC)
        rm == read_data(store["Manutencao"], cache["Manutencao"], envM)
    IN /\ last' = [NoLast EXCEPT !.op = "report", !.antes = store,
                                 !.leituras = <<rc.erro, rm.erro>>,
                                 !.relatorio = render(rc.df, rm.df)]
       /\ cache' = [cache EXCEPT !["Consumo"] = rc.cached, !["Manutencao"] = rm.cached]
       /\ UNCHANGED <<store, submitted, sess>>

\* The Reports tab, whatever the spreadsheet service does.
Reports ==
    \E envC \in ReadEnvs(store["Consumo"], cache["Consumo"]),
       envM \in ReadEnvs(store["Manutencao"], cache["Manutencao"]) :
        ReportWith(envC, envM)

\* The Reports tab when both sheets are read without an error.
ReportsFetched ==
    \E envC \in {e \in ReadEnvs(store["Consumo"], cache["Consumo"]) : e.readOk},
       envM \in {e \in ReadEnvs(store["Manutencao"], cache["Manutencao"]) : e.readOk} :
        ReportWith(envC, envM)

\* ttl=5 (line 24): a cached read result expires.
Expire ==
    \E ws \in Worksheets :
        /\ cache[ws].valid
        /\ cache' = [cache EXCEPT ![ws] = NoCache]
        /\ UNCHANGED <<store, submitted, last, sess>>

Next == FuelSubmit \/ MaintSubmit \/ DisplayRecords \/ Reports \/ Expire

\* One user session: every handler runs to its end before the next starts.
Spec == Init /\ [][Next]_vars

\* ------------------------------------------------- reports over given sheets
RECURSIVE SeqsUpTo(_, _)
SeqsUpTo(S, n) ==
    IF n = 0 THEN {<<>>}
    ELSE LET shorter == SeqsUpTo(S, n - 1)
         IN shorter \cup {Append(q, x) : q \in {t \in shorter : Len(t) = n - 1}, x \in S}

\* Rows the fuel handler can have written: line 58 sets the total cost.
FuelRows ==
    {FuelRegistro(v, d, k, l, p, l * p) :
        v \in Veiculos, d \in Datas, k \in Quilometragens, l \in LitrosVals,
        p \in PrecoVals}

\* Rows the maintenance handler can have written.
MaintRows ==
    {MaintRegistro(v, "oleo", c, d) : v \in Veiculos, c \in ValorVals, d \in FormDatas}

InitWith(consumo, manutencao) ==
    /\ store = [w \in Worksheets |-> IF w = "Consumo" THEN consumo ELSE manutencao]
    /\ cache = [w \in Worksheets |-> NoCache]
    /\ submitted = store
    /\ last = NoLast
    /\ sess = [s \in Sessions |-> NoSession]

InitConsumo == \E rows \in SeqsUpTo(FuelRows, MaxRegistros) : InitWith(rows, <<>>)

InitManutencao == \E rows \in SeqsUpTo(MaintRows, MaxRegistros) : InitWith(<<>>, rows)

\* The report of a fuel sheet holding any rows the application can write.
SpecConsumo == InitConsumo /\ [][ReportsFetched]_vars

\* The report of a maintenance sheet holding any rows the application can write.
SpecManutencao == InitManutencao /\ [][ReportsFetched]_vars

\* ------------------------------------------------------------- two sessions
\* The records a session submits: the ones the handlers build from valid forms.
RegistrosOf(ws) ==
    IF ws = "Consumo"
    THEN {FuelRegistro(e.veiculo, e.data, e.km, e.litros, e.preco, e.litros * e.preco) :
            e \in {x \in FuelInputs : x.km > 0 /\ x.litros > 0 /\ x.preco > 0}}
    ELSE {MaintRegistro(e.veiculo, e.descricao, e.valor, e.data) :
            e \in {x \in MaintInputs : x.descricao # "" /\ x.valor > 0}}

Other(s) == CHOOSE t \in Sessions : t # s

\* Line 34 of add_data in session s.  Both sessions work on one sheet; the
\* other sheet stays as it was.
AddRead(s) ==
    /\ sess[s].pc = "idle"
    /\ \E ws \in Worksheets :
        /\ Len(submitted[ws]) < MaxRows
        /\ \A w \in Worksheets \ {ws} : store[w] = <<>> /\ ~cache[w].valid
        /\ \E data \in RegistrosOf(ws), env \in SubmitEnvs(cache[ws]) :
            LET rd == read_data(store[ws], cache[ws], env)
            IN /\ env.writeOk
               /\ sess' = [sess EXCEPT ![s] = [pc |-> "read", ws |-> ws,
                                               df_existing |-> rd.df, data |-> <<data>>,
                                               ret |-> FALSE, overlap |-> FALSE,
                                               stale |-> FALSE]]
               /\ cache' = [cache EXCEPT ![ws] = rd.cached]
               /\ UNCHANGED <<store, submitted, last>>

\* Lines 35-41 of add_data in session s.  overlap: the other session had read
\* the same sheet and not yet written when this one wrote; stale: the sheet
\* was rewritten after this session read it.
AddWrite(s) ==
    /\ sess[s].pc = "read"
    /\ \E env \in SubmitEnvs(NoCache) :
        LET ws == sess[s].ws
            w == add_data_write(store[ws], sess[s].df_existing, sess[s].data[1], env)
        IN /\ env.readOk
           /\ store' = [store EXCEPT ![ws] = w.sheet]
           /\ submitted' = IF w.ok THEN [submitted EXCEPT ![ws] = @ \o sess[s].data]
                           ELSE submitted
           /\ LET reading == sess[Other(s)].pc = "read" /\ sess[Other(s)].ws = ws
              IN sess' = [sess EXCEPT ![s].pc = "done", ![s].ret = w.ok,
                                      ![s].overlap = reading,
                                      ![Other(s)].stale = @ \/ (reading /\ w.ok)]
           /\ UNCHANGED <<cache, last>>

\* add_data has returned; the session is ready for its next submission.
AddReturn(s) ==
    /\ sess[s].pc = "done"
    /\ sess' = [sess EXCEPT ![s] = NoSession]
    /\ UNCHANGED <<store, cache, submitted, last>>

NextRace == (\E s \in Sessions : AddRead(s) \/ AddWrite(s) \/ AddReturn(s)) \/ Expire

\* Two sessions of the application on the same spreadsheet, add_data step by step.
SpecRace == Init /\ [][NextRace]_vars

\* ================================================================== claims
IsPrefix(a, b) == Len(a) <= Len(b) /\ SubSeq(b, 1, Len(a)) = a

RECURSIVE SumOver(_, _)
SumOver(f, S) ==
    IF S = {} THEN 0
    ELSE LET i == CHOOSE x \in S : TRUE IN f[i] + SumOver(f, S \ {i})

IndicesOf(rows, veiculo) == {i \in 1..Len(rows) : rows[i].Veiculo = veiculo}

\* The records of row i's vehicle that come before it by date (rows of one
\* date in the order the sheet holds them).
Before(rows, i) ==
    {j \in IndicesOf(rows, rows[i].Veiculo) :
        rows[j].Data < rows[i].Data \/ (rows[j].Data = rows[i].Data /\ j < i)}

\* The immediately preceding record of row i's vehicle.
Pred(rows, i) == CHOOSE j \in Before(rows, i) : Before(rows, i) = Before(rows, j) \cup {j}

\* Processed row o is input row i with km_diff and consumo_km_l as specified.
IsSampleOf(o, rows, i) ==
    LET d == rows[i].Quilometragem - rows[Pred(rows, i)].Quilometragem
    IN /\ o.Data = rows[i].Data /\ o.Veiculo = rows[i].Veiculo
       /\ o.Quilometragem = rows[i].Quilometragem /\ o.Litros = rows[i].Litros
       /\ o.Preco_L = rows[i].Preco_L /\ o.Valor_Total = rows[i].Valor_Total
       /\ o.km_diff.kind = "num" /\ o.km_diff.num = d * o.km_diff.den
       /\ o.consumo_km_l.kind = "num"
       /\ o.consumo_km_l.num * rows[i].Litros = d * o.consumo_km_l.den

\* C1: the efficiency processor returns, for each vehicle, all its records
\* but the earliest by date (k records give k-1 rows, one record gives none),
\* each with km_diff = its odometer minus the odometer of the vehicle's
\* immediately preceding record and consumo_km_l = km_diff / its own liters.
C1_ProcessarDropsEarliest ==
    (last.op = "report" /\ last.relatorio.lidos # <<>>) =>
        LET rows == last.relatorio.lidos
            out == last.relatorio.processados
            kept == {i \in 1..Len(rows) : Before(rows, i) # {}}
        IN /\ ~last.relatorio.erro
           /\ \A v \in Veiculos :
                Cardinality(IndicesOf(out, v)) =
                    IF IndicesOf(rows, v) = {} THEN 0
                    ELSE Cardinality(IndicesOf(rows, v)) - 1
           /\ \E f \in [1..Len(out) -> kept] :
                /\ \A m, n \in 1..Len(out) : f[m] = f[n] => m = n
                /\ \A n \in 1..Len(out) : IsSampleOf(out[n], rows, f[n])

\* C1 witness: a vehicle stored later-date-first with odometers 1400 and 1000,
\* another vehicle with one record; the one row kept has 400 km at 40 km/L.
C1_Witness ==
    /\ last.op = "report"
    /\ Len(last.relatorio.lidos) = 3
    /\ \E v \in Veiculos :
        /\ Cardinality(IndicesOf(last.relatorio.lidos, v)) = 1
        /\ last.relatorio.lidos[2].Veiculo = v
    /\ last.relatorio.lidos[1].Data > last.relatorio.lidos[3].Data
    /\ last.relatorio.lidos[1].Quilometragem = 1400
    /\ last.relatorio.lidos[1].Litros = 10
    /\ last.relatorio.lidos[3].Quilometragem = 1000
    /\ Len(last.relatorio.processados) = 1
    /\ last.relatorio.processados[1].km_diff.num = 400
    /\ last.relatorio.processados[1].consumo_km_l.num
         = 40 * last.relatorio.processados[1].consumo_km_l.den

\* C2: a fuel submission whose odometer, liters or price is not above 0 is
\* rejected (add_data not called, the store as before), and no row with such
\* a value is ever in the "Consumo" sheet.
C2_FuelValidationGate ==
    /\ (/\ last.op = "fuel"
        /\ (last.entrada.km <= 0 \/ last.entrada.litros <= 0 \/ last.entrada.preco <= 0))
       => /\ last.h.addCalls = 0 /\ last.h.updates = 0
          /\ last.h.warning /\ ~last.h.success /\ ~last.h.rerun
          /\ store = last.antes
    /\ \A i \in 1..Len(store["Consumo"]) :
          /\ store["Consumo"][i].Quilometragem > 0
          /\ store["Consumo"][i].Litros > 0
          /\ store["Consumo"][i].Preco_L > 0

\* C2 witness: liters = 0 with the other fields valid, on a sheet with rows.
C2_Witness ==
    /\ last.op = "fuel" /\ last.entrada.litros = 0
    /\ last.entrada.km > 0 /\ last.entrada.preco > 0
    /\ store["Consumo"] # <<>> /\ last.h.warning

\* C3: a maintenance submission with an empty description or a cost not above
\* 0 is rejected: add_data is not called and the store is as before.
C3_MaintValidationGate ==
    (/\ last.op = "maint"
     /\ (last.entrada.descricao = "" \/ last.entrada.valor <= 0))
    => /\ last.h.addCalls = 0 /\ last.h.updates = 0
       /\ last.h.warning /\ ~last.h.success /\ ~last.h.rerun
       /\ store = last.antes

\* C3 witness: a description with cost 0, on a sheet with rows.
C3_Witness ==
    /\ last.op = "maint" /\ last.entrada.descricao # "" /\ last.entrada.valor = 0
    /\ store["Manutencao"] # <<>> /\ last.h.warning

\* C4: from an empty sheet, after N submissions add_data returned True for,
\* the sheet holds exactly those N records in the order submitted.
C4_SequentialAppendsKept == \A ws \in Worksheets : store[ws] = submitted[ws]

\* C5: the store is append-only: whatever fails during a submission, the
\* sheet's previous rows are a prefix of its new rows, and a submission to one
\* sheet leaves the other alone.
C5_AppendOnly ==
    [][\A ws \in Worksheets :
          /\ IsPrefix(store[ws], store'[ws])
          /\ store'[ws] # store[ws] =>
                \A w \in Worksheets \ {ws} : store'[w] = store[w]]_vars

\* C6: when conn.update fails, add_data returns False after one attempt, the
\* handler shows no success and triggers no rerun, and the store is as before.
C6_WriteFailureHandled ==
    (last.op \in {"fuel", "maint"} /\ last.h.writeErro)
    => /\ ~last.h.ok /\ last.h.updates = 1 /\ last.h.addCalls = 1
       /\ ~last.h.success /\ ~last.h.rerun
       /\ store = last.antes

\* C6 witness: a valid submission whose write failed on a sheet with rows.
C6_Witness ==
    /\ last.op \in {"fuel", "maint"} /\ last.h.writeErro /\ ~last.h.readErro
    /\ store[last.ws] # <<>>

\* C7: the fuel cost reported per vehicle is the sum of total cost over that
\* vehicle's fuel records, and the overall fuel cost is the sum over all
\* fuel records.
C7_FuelCostTotals ==
    (last.op = "report" /\ last.relatorio.lidos # <<>>) =>
        LET rows == last.relatorio.lidos
            st == last.relatorio.consumo
            custo == [i \in 1..Len(rows) |-> rows[i].Valor_Total]
        IN /\ \A v \in Veiculos :
                IndicesOf(rows, v) # {} =>
                    \E k \in 1..Len(st.por_veiculo) :
                        /\ st.por_veiculo[k].veiculo = v
                        /\ st.por_veiculo[k].custo_veiculo = SumOver(custo, IndicesOf(rows, v))
           /\ st.geral.feito
           /\ st.geral.custo_total = SumOver(custo, 1..Len(rows))

\* C8: for a non-empty maintenance sheet the report gives, per vehicle, the
\* sum of that vehicle's costs, and an overall total that is the sum of all
\* costs and of the per-vehicle totals.
C8_MaintTotals ==
    (last.op = "report" /\ last.relatorio.lidos_manut # <<>>) =>
        LET rows == last.relatorio.lidos_manut
            st == last.relatorio.manutencao
            valor == [i \in 1..Len(rows) |-> rows[i].Valor]
            shown == [k \in 1..Len(st.gastos_por_veiculo) |-> st.gastos_por_veiculo[k].valor]
        IN /\ st.feito
           /\ \A v \in Veiculos :
                Cardinality({k \in 1..Len(st.gastos_por_veiculo) :
                                st.gastos_por_veiculo[k].veiculo = v})
                    = IF IndicesOf(rows, v) = {} THEN 0 ELSE 1
           /\ \A k \in 1..Len(st.gastos_por_veiculo) :
                st.gastos_por_veiculo[k].valor
                    = SumOver(valor, IndicesOf(rows, st.gastos_por_veiculo[k].veiculo))
           /\ st.gasto_total = SumOver(valor, 1..Len(rows))
           /\ st.gasto_total = SumOver(shown, 1..Len(shown))

\* C8 witness: [(Carro,100),(Carro,50),(Moto,30)] gives Carro=150, Moto=30,
\* overall=180.
C8_Witness ==
    /\ last.op = "report"
    /\ Len(last.relatorio.lidos_manut) = 3
    /\ last.relatorio.lidos_manut[1].Veiculo = "Carro"
    /\ last.relatorio.lidos_manut[1].Valor = 100
    /\ last.relatorio.lidos_manut[2].Veiculo = "Carro"
    /\ last.relatorio.lidos_manut[2].Valor = 50
    /\ last.relatorio.lidos_manut[3].Veiculo = "Moto"
    /\ last.relatorio.lidos_manut[3].Valor = 30
    /\ last.relatorio.manutencao.gastos_por_veiculo
         = <<[veiculo |-> "Carro", valor |-> 150], [veiculo |-> "Moto", valor |-> 30]>>
    /\ last.relatorio.manutencao.gasto_total = 180

\* C9: render never ends in an error when a sheet is empty or its read
\* fails: a failed read gives an empty record set, an empty record set gives
\* no statistics, and a fuel set whose processed set is empty gives statistics
\* with no vehicle and no totals.
C9_RenderNeverRaises ==
    last.op = "report" =>
        /\ ~last.relatorio.erro
        /\ last.leituras[1] => last.relatorio.lidos = <<>>
        /\ last.leituras[2] => last.relatorio.lidos_manut = <<>>
        /\ last.relatorio.lidos = <<>> =>
              ~last.relatorio.consumo.feito /\ last.relatorio.charts = 0
        /\ last.relatorio.lidos_manut = <<>> => ~last.relatorio.manutencao.feito
        /\ (last.relatorio.lidos # <<>> /\ last.relatorio.processados = <<>>) =>
              /\ last.relatorio.consumo.feito
              /\ last.relatorio.consumo.por_veiculo = <<>>
              /\ ~last.relatorio.consumo.geral.feito
              /\ last.relatorio.charts = 1

\* C9 witness: the maintenance read fails on a sheet with rows while the fuel
\* sheet holds one record per vehicle, so the processed set is empty.
C9_Witness ==
    /\ last.op = "report"
    /\ last.leituras = <<FALSE, TRUE>>
    /\ store["Manutencao"] # <<>>
    /\ Len(last.relatorio.lidos) = 2
    /\ last.relatorio.processados = <<>>

\* C10: when two sessions run add_data on one sheet and both read before
\* either writes, the sheet ends as the snapshot of the session that wrote
\* last plus its own record: a record is lost though both calls returned True.
C10_LastWriterWins ==
    \A s \in Sessions :
        LET t == Other(s)
        IN (/\ sess[s].pc = "done" /\ sess[s].ret /\ sess[s].overlap
            /\ sess[t].pc = "done" /\ sess[t].ret /\ sess[t].stale
            /\ sess[t].ws = sess[s].ws)
           => /\ store[sess[t].ws] = sess[t].df_existing.rows \o sess[t].data
              /\ Len(store[sess[t].ws]) < Len(submitted[sess[t].ws])

\* C10 witness: both sessions read a sheet with one row, both wrote their own
\* record with success, and the first writer's record is not in the sheet.
C10_Witness ==
    \E s \in Sessions :
        LET t == Other(s)
        IN /\ sess[s].pc = "done" /\ sess[s].ret /\ sess[s].overlap
           /\ sess[t].pc = "done" /\ sess[t].ret /\ sess[t].stale
           /\ sess[t].ws = sess[s].ws
           /\ Len(sess[s].df_existing.rows) = 1
           /\ sess[t].df_existing = sess[s].df_existing
           /\ sess[s].data # sess[t].data
           /\ \A i \in 1..Len(store[sess[t].ws]) : store[sess[t].ws][i] # sess[s].data[1]
====
